---- MODULE Spec2Model ----
(***************************************************************************)
(* Model of the two Socket.IO servers of onepiece-card:                    *)
(*   onpc-multi/server.js  - the relay server (rooms, roster, P1/P2/SPEC   *)
(*                           seats, relayed actions, pushed snapshots);    *)
(*   onpc-proto/server.js  - the authoritative server (one room, the       *)
(*                           reducer applyAction, versioned broadcasts).   *)
(* Node runs every handler to completion on one thread, so each handler is *)
(* one atomic action.                                                      *)
(***************************************************************************)
EXTENDS Integers, Sequences, FiniteSets, TLC

\* ------------------------------------------------------------------ bounds
\* Socket ids are 1..MaxSockets.
MaxSockets == 3
\* Largest spectator limit tried for MAX_SPECTATORS besides 0 and Infinity.
MaxSpecLimit == 1
\* Spectator joins stop once a room's nextSpecNo has passed this number.
MaxSpecNo == 2

SocketIds == 1..MaxSockets
\* Room names a client asks for: 0 stands for the default room 'dev'.  A room
\* named like a socket id k would be the number k.
RoomIds == {0}

\* Sockets and room names used to try two rooms side by side: the default room
\* and a room named like the id of socket 1.
IsoSockets == 2
IsoRoomIds == {0, 1}

\* ------------------------------------------------------------- JS values
\* Values a client can push as a snapshot.  "0" stands for a falsy value that
\* is not null (0, '', false); "null" is the value of a room with no snapshot.
Null == "null"
PushDocs == {"0", "boardA", "boardB"}
\* if (info.state): JavaScript truthiness of the stored snapshot
Truthy(v) == v \notin {"null", "0"}
\* String(name || 'anon')
Names == {""}
StringName(name) == IF name = "" THEN "anon" ELSE name
\* handshake.query.role
RequestedRoles == {"spec", "undefined"}
\* payloads of 'action' in the relay server (opaque to it)
Payloads == {"draw"}

MAX_PLAYERS == 2
\* MAX_SPECTATORS when the environment variable is unset: no count reaches it
Infinity == MaxSockets + 1

P1 == <<"P", 1>>
P2 == <<"P", 2>>
\* `SPEC${n}`
SpecSeat(n) == <<"SPEC", n>>

\* --------------------------------------------------------------- variables
VARIABLES
  MAX_SPECTATORS, \* relay: the configured spectator limit
  roomState,      \* relay: roomId -> [roster, state, nextSpecNo]
  connected,      \* relay: live sockets with handlers registered -> roomId
  sent,           \* relay: messages emitted by the handler that ran last
  acked,          \* relay: what the last handler passed to ack, or "none"
  lastEv,         \* relay: the event the last handler served
  hist,           \* relay: per room session, what has happened in it so far
  rooms,          \* proto: roomId -> state (the room's document)
  sockets,        \* proto: the live sockets
  emitted,        \* proto: messages emitted by the handler that ran last
  protoEv,        \* proto: the event the last handler served
  crashed         \* proto: a handler threw and the Node process ended

multiVars == <<MAX_SPECTATORS, roomState, connected, sent, acked, lastEv, hist>>
protoVars == <<rooms, sockets, emitted, protoEv, crashed>>
vars == <<multiVars, protoVars>>

\* ------------------------------------------------------------ map helpers
Put(f, k, v) == [x \in DOMAIN f \cup {k} |-> IF x = k THEN v ELSE f[x]]
Delete(f, k) == [x \in DOMAIN f \ {k} |-> f[x]]
EmptyMap == [x \in {} |-> 0]

\* ================================================================= relay
createRoomInfo == [roster |-> EmptyMap, state |-> Null, nextSpecNo |-> 1]

getPlayers(info) == {id \in DOMAIN info.roster : info.roster[id].role = "PLAYER"}

countSpectators(info) ==
  Cardinality({id \in DOMAIN info.roster : info.roster[id].role = "SPEC"})

\* The sockets an emit to room r reaches: those that joined r, and the socket
\* whose id is r (Socket.IO puts every socket in the room named by its id).
InRoom(conn, r) == {s \in DOMAIN conn : conn[s] = r \/ s = r}

\* publishRoster: the list sent, one entry per roster entry
RosterList(info) ==
  {[id |-> id, name |-> info.roster[id].name, role |-> info.roster[id].role,
    seat |-> info.roster[id].seat] : id \in DOMAIN info.roster}

publishRoster(conn, roomId, info) ==
  [ev |-> "room:roster", to |-> InRoom(conn, roomId), data |-> RosterList(info)]

\* mutant: the seat limit compared with > instead of >=
DecideRoleOffByOne(info, requestedRole) ==
  IF requestedRole = "spec" \/ Cardinality(getPlayers(info)) > MAX_PLAYERS
  THEN "SPEC" ELSE "PLAYER"

\* role decision of the connection handler
DecideRole(info, requestedRole) ==
  IF requestedRole = "spec" \/ Cardinality(getPlayers(info)) >= MAX_PLAYERS
  THEN "SPEC" ELSE "PLAYER"

\* mutant: the spectator limit compared with > instead of >=
SpectatorsFullOffByOne(info, role) ==
  role = "SPEC" /\ countSpectators(info) > MAX_SPECTATORS

\* the spectator limit test
SpectatorsFull(info, role) ==
  role = "SPEC" /\ countSpectators(info) >= MAX_SPECTATORS

\* mutant: the free seat is looked for from P2
DecideSeatP2First(info, role) ==
  IF role = "PLAYER"
  THEN LET used == {info.roster[id].seat : id \in getPlayers(info)}
       IN IF P2 \in used THEN P1 ELSE P2
  ELSE SpecSeat(info.nextSpecNo)

\* mutant: a spectator is numbered by the spectators present, not by the
\* room's counter
DecideSeatByCount(info, role) ==
  IF role = "PLAYER"
  THEN LET used == {info.roster[id].seat : id \in getPlayers(info)}
       IN IF P1 \in used THEN P2 ELSE P1
  ELSE SpecSeat(countSpectators(info) + 1)

\* seat assignment
DecideSeat(info, role) ==
  IF role = "PLAYER"
  THEN LET used == {info.roster[id].seat : id \in getPlayers(info)}
       IN IF P1 \in used THEN P2 ELSE P1
  ELSE SpecSeat(info.nextSpecNo)

\* What is remembered of a room: how many joins of its current session did not
\* ask to spectate and, while the room is absent, whether the session torn
\* down last held a document and had handed out SPEC1; issued is the highest
\* spectator number handed out in the current session (0: none yet).
NewHist == [eligible |-> 0, torn |-> FALSE, issued |-> 0]

\* io.on('connection'): a socket with a fresh id connects
Connection(s, room, name, requestedRole) ==
  /\ s \notin DOMAIN connected
  /\ LET rs1 == IF room \in DOMAIN roomState THEN roomState
                ELSE Put(roomState, room, createRoomInfo)
         h0 == IF room \in DOMAIN roomState THEN hist[room] ELSE NewHist
         h1 == [eligible |-> IF requestedRole = "spec" THEN h0.eligible
                             ELSE IF h0.eligible >= 3 THEN 4 ELSE h0.eligible + 1,
                torn |-> FALSE, issued |-> h0.issued]
         reborn == room \notin DOMAIN roomState /\ hist[room].torn
         info == rs1[room]
         role == DecideRole(info, requestedRole)
     IN IF SpectatorsFull(info, role)
        THEN /\ roomState' = rs1
             /\ sent' = <<[ev |-> "room:spectators_full", to |-> {s}, data |-> room]>>
             /\ lastEv' = [op |-> "refused", id |-> s, room |-> room, role |-> requestedRole, ack |-> FALSE, reborn |-> FALSE]
             /\ hist' = [hist EXCEPT ![room] = h1]
             /\ UNCHANGED connected
        ELSE /\ role = "SPEC" => info.nextSpecNo <= MaxSpecNo
             /\ LET seat == DecideSeat(info, role)
                    info2 == [roster |-> Put(info.roster, s,
                                 [name |-> StringName(name), role |-> role, seat |-> seat]),
                              state |-> info.state,
                              nextSpecNo |-> IF role = "SPEC" THEN info.nextSpecNo + 1
                                             ELSE info.nextSpecNo]
                    conn2 == Put(connected, s, room)
                IN /\ roomState' = Put(rs1, room, info2)
                   /\ connected' = conn2
                   /\ sent' = <<[ev |-> "room:hello", to |-> {s},
                                 data |-> [room |-> room, name |-> name, role |-> role, seat |-> seat]],
                                publishRoster(conn2, room, info2)>>
                              \o (IF Truthy(info2.state)
                                  THEN <<[ev |-> "snapshot:apply", to |-> {s}, data |-> info2.state]>>
                                  ELSE <<>>)
                   /\ lastEv' = [op |-> "join", id |-> s, room |-> room, role |-> requestedRole,
                                 ack |-> FALSE, reborn |-> reborn]
                   /\ hist' = [hist EXCEPT ![room] =
                                 IF role = "SPEC" /\ seat[2] > h1.issued
                                 THEN [h1 EXCEPT !.issued = seat[2]] ELSE h1]
  /\ acked' = "none"
  /\ UNCHANGED <<MAX_SPECTATORS, protoVars>>

\* mutant: any roster member passes the sender test
IsMember(info, s) == s \in DOMAIN info.roster

\* the sender test of 'action' and 'snapshot:push'
IsPlayer(info, s) == s \in DOMAIN info.roster /\ info.roster[s].role = "PLAYER"

\* mutant: the action is emitted with socket.to(roomId), which leaves out the
\* sender
ActionRecipientsOthers(conn, roomId, s) == InRoom(conn, roomId) \ {s}

\* io.to(roomId).emit('action', ...): the sockets the action is emitted to
ActionRecipients(conn, roomId, s) == InRoom(conn, roomId)

\* socket.on('action')
OnAction(s, payload, hasAck) ==
  /\ s \in DOMAIN connected
  /\ LET roomId == connected[s]
         info == roomState[roomId]
     IN IF ~IsPlayer(info, s)
        THEN /\ sent' = <<>>
             /\ acked' = IF hasAck THEN "spectator" ELSE "none"
        ELSE /\ sent' = <<[ev |-> "action", to |-> ActionRecipients(connected, roomId, s),
                           data |-> [payload |-> payload, _from |-> s]]>>
             /\ acked' = IF hasAck THEN "ok" ELSE "none"
  /\ lastEv' = [op |-> "action", id |-> s, room |-> connected[s], role |-> "undefined",
                ack |-> hasAck, reborn |-> FALSE]
  /\ UNCHANGED <<MAX_SPECTATORS, roomState, connected, hist, protoVars>>

\* socket.on('snapshot:push')
OnSnapshotPush(s, state) ==
  /\ s \in DOMAIN connected
  /\ LET roomId == connected[s]
         info == roomState[roomId]
     IN IF ~IsPlayer(info, s)
        THEN /\ sent' = <<>>
             /\ UNCHANGED roomState
        ELSE /\ roomState' = [roomState EXCEPT ![roomId].state = state]
             /\ sent' = <<[ev |-> "snapshot:apply", to |-> InRoom(connected, roomId) \ {s},
                           data |-> state]>>
  /\ acked' = "none"
  /\ lastEv' = [op |-> "push", id |-> s, room |-> connected[s], role |-> "undefined",
                ack |-> FALSE, reborn |-> FALSE]
  /\ UNCHANGED <<MAX_SPECTATORS, connected, hist, protoVars>>

\* socket.on('snapshot:pull')
OnSnapshotPull(s) ==
  /\ s \in DOMAIN connected
  /\ LET info == roomState[connected[s]]
     IN sent' = IF Truthy(info.state)
                THEN <<[ev |-> "snapshot:apply", to |-> {s}, data |-> info.state]>>
                ELSE <<>>
  /\ acked' = "none"
  /\ lastEv' = [op |-> "pull", id |-> s, room |-> connected[s], role |-> "undefined",
                ack |-> FALSE, reborn |-> FALSE]
  /\ UNCHANGED <<MAX_SPECTATORS, roomState, connected, hist, protoVars>>

\* mutant: the leaver's entry is not deleted
RosterKeepLeaver(roster, s) == roster

\* the roster after the leaver's entry is deleted
RosterAfterLeave(roster, s) == Delete(roster, s)

\* mutant: the room stays in the registry when its roster is empty
RegistryKeepEmpty(rs, roomId, r) == Put(rs, roomId, r)

\* if (r.roster.size === 0) roomState.delete(roomId)
RegistryAfterLeave(rs, roomId, r) ==
  IF Cardinality(DOMAIN r.roster) = 0 THEN Delete(rs, roomId) ELSE Put(rs, roomId, r)

\* socket.on('disconnect'): the socket has already left its Socket.IO rooms
OnDisconnect(s) ==
  /\ s \in DOMAIN connected
  /\ LET roomId == connected[s]
         conn2 == Delete(connected, s)
     IN /\ connected' = conn2
        /\ IF roomId \notin DOMAIN roomState
           THEN /\ sent' = <<>>
                /\ UNCHANGED <<roomState, hist>>
           ELSE LET r == [roomState[roomId] EXCEPT !.roster = RosterAfterLeave(@, s)]
                IN /\ sent' = <<publishRoster(conn2, roomId, r)>>
                   /\ roomState' = RegistryAfterLeave(roomState, roomId, r)
                   /\ hist' = IF Cardinality(DOMAIN r.roster) = 0
                              THEN [hist EXCEPT ![roomId] =
                                      [eligible |-> 0,
                                       torn |-> r.state # Null /\ r.nextSpecNo > 1,
                                       issued |-> 0]]
                              ELSE hist
        /\ lastEv' = [op |-> "disconnect", id |-> s, room |-> roomId, role |-> "undefined",
                        ack |-> FALSE, reborn |-> FALSE]
  /\ acked' = "none"
  /\ UNCHANGED <<MAX_SPECTATORS, protoVars>>


\* ================================================================= proto
\* Cards per deck (50 in the source), accepted actions explored, live sockets.
DeckSize == 1
MaxVersion == 2
MaxProtoSockets == 2

ProtoSocketIds == 1..MaxProtoSockets
Sides == {"A", "B"}
\* a.player: a side, or "C" for a side the document does not have (or none)
Players == Sides \cup {"C"}
\* const roomId = 'game-1'
GAME == "game-1"
\* `deck/player_${p}/images/image (${i}).png`
Card(p, i) == <<p, i>>
DON_INIT == 10
\* the result of arithmetic on undefined (Math.min(2, undefined)), and a
\* value that is not a number; outside the range of the numbers used
NaN == 0 - 1000

Min2(a, b) == IF a < b THEN a ELSE b
Max2(a, b) == IF a > b THEN a ELSE b
Range(seq) == {seq[i] : i \in 1..Len(seq)}

makeInitialState ==
  [version |-> 0,
   players |-> <<"A", "B">>,
   deckImages |-> [p \in Sides |-> [i \in 1..DeckSize |-> Card(p, i)]],
   handImages |-> [p \in Sides |-> <<>>],
   lifeImages |-> [p \in Sides |-> <<>>],
   trashImages |-> [p \in Sides |-> <<>>],
   deckCounts |-> [p \in Sides |-> DeckSize],
   handCounts |-> [p \in Sides |-> 0],
   lifeCounts |-> [p \in Sides |-> 0],
   trashCounts |-> [p \in Sides |-> 0],
   donDeck |-> [p \in Sides |-> DON_INIT],
   donAct |-> [p \in Sides |-> 0],
   donRest |-> [p \in Sides |-> 0],
   chara |-> [p \in Sides |-> <<Null, Null, Null, Null, Null>>],
   stage |-> [p \in Sides |-> Null],
   revealed |-> [life |-> [p \in Sides |-> <<>>], deck |-> [p \in Sides |-> <<>>]]]

\* getRoom: the registry after the lookup (the room is created when missing)
getRoom(rs) == IF GAME \in DOMAIN rs THEN rs ELSE Put(rs, GAME, makeInitialState)

\* A JavaScript Set is kept as the sequence of its members in insertion order,
\* which is the order [...set] lists them in.
SetAdd(set, x) == IF x \in Range(set) THEN set ELSE Append(set, x)
SetDelete(set, x) == SelectSeq(set, LAMBDA y : y # x)

\* the document as sent: the reveal sets of A and B become arrays
Wire(s) ==
  [s EXCEPT !.revealed = [life |-> [p \in Sides |-> s.revealed.life[p]],
                          deck |-> [p \in Sides |-> s.revealed.deck[p]]]]

\* x|0 on a number of the 32-bit range, and on a value that is not a number
ToInt32(x) == IF x = NaN THEN 0 ELSE x
\* mutant: the ceiling is not applied
clampNoCeiling(x, min, max) == Max2(min, ToInt32(x))

clamp(x, min, max) == Min2(max, Max2(min, ToInt32(x)))

\* table[p] of an object that may lack the key, and arithmetic on the result
Get(table, p) == IF p \in DOMAIN table THEN table[p] ELSE NaN
JsMin(a, b) == IF a = NaN \/ b = NaN THEN NaN ELSE Min2(a, b)
JsAdd(a, b) == IF a = NaN \/ b = NaN THEN NaN ELSE a + b
JsSub(a, b) == IF a = NaN \/ b = NaN THEN NaN ELSE a - b

\* outcomes of the reducer: the document it leaves, and whether it threw
Ok(st) == {[st |-> st, threw |-> FALSE]}
Throw(st) == {[st |-> st, threw |-> TRUE]}

\* the count that mirrors a zone
CountOf(zone) ==
  CASE zone = "deckImages" -> "deckCounts"
    [] zone = "handImages" -> "handCounts"
    [] zone = "lifeImages" -> "lifeCounts"
    [] zone = "trashImages" -> "trashCounts"

\* mutant: the destination count is not raised
ShiftToNoCount(state, p, from, to) ==
  [state EXCEPT ![from][p] = Tail(@),
                ![to][p] = <<Head(state[from][p])>> \o @,
                ![CountOf(from)][p] = @ - 1]

\* mutant: the top card is read with [0] and stays in the source zone
ShiftToCopy(state, p, from, to) ==
  [state EXCEPT ![to][p] = <<Head(state[from][p])>> \o @,
                ![CountOf(from)][p] = @ - 1,
                ![CountOf(to)][p] = @ + 1]

\* shift() from one zone, unshift() onto another, count-- and count++
ShiftTo(state, p, from, to) ==
  [state EXCEPT ![from][p] = Tail(@),
                ![to][p] = <<Head(state[from][p])>> \o @,
                ![CountOf(from)][p] = @ - 1,
                ![CountOf(to)][p] = @ + 1]

\* mutant: the moved card stays in the life reveal set
PurgeNothing(state, p, top) == state

\* delete the moved card from the life reveal set
PurgeRevealed(state, p, top) ==
  [state EXCEPT !.revealed.life[p] = SetDelete(@, top)]

\* mutant: no test for an empty deck; the counts move all the same
DRAW_TO_HAND_Unguarded(state, a) ==
  LET p == a.player IN
  IF p \notin DOMAIN state.deckImages THEN Throw(state)
  ELSE IF Len(state.deckImages[p]) = 0
       THEN Ok([state EXCEPT !.deckCounts[p] = @ - 1, !.handCounts[p] = @ + 1])
       ELSE Ok(ShiftTo(state, p, "deckImages", "handImages"))

DRAW_TO_HAND(state, a) ==
  LET p == a.player IN
  IF p \notin DOMAIN state.deckImages THEN Throw(state)
  ELSE IF Len(state.deckImages[p]) = 0 THEN Ok(state)
  ELSE Ok(ShiftTo(state, p, "deckImages", "handImages"))

DECK_TO_LIFE_TOP(state, a) ==
  LET p == a.player IN
  IF p \notin DOMAIN state.deckImages THEN Throw(state)
  ELSE IF Len(state.deckImages[p]) = 0 THEN Ok(state)
  ELSE Ok(ShiftTo(state, p, "deckImages", "lifeImages"))

DECK_TO_TRASH(state, a) ==
  LET p == a.player IN
  IF p \notin DOMAIN state.deckImages THEN Throw(state)
  ELSE IF Len(state.deckImages[p]) = 0 THEN Ok(state)
  ELSE Ok(ShiftTo(state, p, "deckImages", "trashImages"))

LIFE_TO_HAND(state, a) ==
  LET p == a.player IN
  IF p \notin DOMAIN state.lifeImages THEN Throw(state)
  ELSE IF Len(state.lifeImages[p]) = 0 THEN Ok(state)
  ELSE Ok(PurgeRevealed(ShiftTo(state, p, "lifeImages", "handImages"),
                        p, Head(state.lifeImages[p])))

LIFE_TO_TRASH(state, a) ==
  LET p == a.player IN
  IF p \notin DOMAIN state.lifeImages THEN Throw(state)
  ELSE IF Len(state.lifeImages[p]) = 0 THEN Ok(state)
  ELSE Ok(PurgeRevealed(ShiftTo(state, p, "lifeImages", "trashImages"),
                        p, Head(state.lifeImages[p])))

DON_SET(state, a) ==
  LET table == IF a.target = "deck" THEN "donDeck"
               ELSE IF a.target = "act" THEN "donAct" ELSE "donRest"
  IN Ok([state EXCEPT ![table] = Put(@, a.player, clamp(a.value, 0, 10))])

\* Fisher-Yates: for i from the last index down to the second, swap arr[i]
\* with arr[j], j drawn from the indices up to i
Swap(arr, i, j) ==
  [k \in 1..Len(arr) |-> IF k = i THEN arr[j] ELSE IF k = j THEN arr[i] ELSE arr[k]]

RECURSIVE FisherYates(_, _)
FisherYates(arr, i) ==
  IF i < 2 THEN {arr}
  ELSE UNION {FisherYates(Swap(arr, i, j), i - 1) : j \in 1..i}

\* a.path after split('.'); the paths that lead to an array of the document
ZonePaths == {<<z, p>> : z \in {"deckImages", "handImages", "lifeImages", "trashImages"},
                         p \in Sides}
ArrayPaths == ZonePaths \cup {<<"players">>} \cup {<<"chara", p>> : p \in Sides}
\* paths that lead to a number, an object, or nothing
OtherPaths == {<<"version">>, <<"deckImages">>, <<"deckImages", "C">>}

SHUFFLE(state, a) ==
  IF "path" \in a.absent THEN Throw(state)
  ELSE IF a.path \notin ArrayPaths THEN Ok(state)
  ELSE IF Len(a.path) = 1
       THEN {[st |-> [state EXCEPT ![a.path[1]] = arr], threw |-> FALSE] :
               arr \in FisherYates(state[a.path[1]], Len(state[a.path[1]]))}
       ELSE {[st |-> [state EXCEPT ![a.path[1]][a.path[2]] = arr], threw |-> FALSE] :
               arr \in FisherYates(state[a.path[1]][a.path[2]],
                                   Len(state[a.path[1]][a.path[2]]))}

\* for (i = 0; i < Math.min(5, deck.length); i++): the bound is read again on
\* every round, while the deck shrinks
RECURSIVE MulliganDraw(_, _, _)
MulliganDraw(state, p, i) ==
  IF i < Min2(5, Len(state.deckImages[p]))
  THEN MulliganDraw(ShiftTo(state, p, "deckImages", "handImages"), p, i + 1)
  ELSE state

\* the hand goes to the bottom of the deck, card by card
ReturnHand(state, p) ==
  [state EXCEPT !.deckImages[p] = @ \o state.handImages[p],
                !.handImages[p] = <<>>,
                !.handCounts[p] = @ - Len(state.handImages[p]),
                !.deckCounts[p] = @ + Len(state.handImages[p])]

MULLIGAN(state, a) ==
  LET p == a.player IN
  IF p \notin DOMAIN state.handImages THEN Throw(state)
  ELSE LET s1 == ReturnHand(state, p)
       IN {[st |-> MulliganDraw([s1 EXCEPT !.deckImages[p] = deck], p, 0),
            threw |-> FALSE] :
             deck \in FisherYates(s1.deckImages[p], Len(s1.deckImages[p]))}

\* the resource pools after the first half of REFRESH
RefreshDon(state, p) ==
  LET move == JsMin(2, Get(state.donDeck, p))
  IN [state EXCEPT !.donRest = Put(@, p, 0),
                   !.donDeck = Put(@, p, JsSub(Get(state.donDeck, p), move)),
                   !.donAct = Put(@, p, clamp(JsAdd(Get(state.donAct, p), move), 0, 10))]

REFRESH(state, a) ==
  LET p == a.player
      s1 == RefreshDon(state, p)
  IN IF p \notin DOMAIN s1.deckImages THEN Throw(s1)
     ELSE IF Len(s1.deckImages[p]) # 0
          THEN Ok(ShiftTo(s1, p, "deckImages", "handImages"))
          ELSE Ok(s1)

RECURSIVE AddAll(_, _)
AddAll(set, cards) ==
  IF cards = <<>> THEN set ELSE AddAll(SetAdd(set, Head(cards)), Tail(cards))

REVEAL_LIFE(state, a) ==
  LET p == a.player IN
  IF "cards" \in a.absent THEN Throw(state)
  ELSE IF p \notin DOMAIN state.revealed.life
       THEN IF a.cards = <<>> THEN Ok(state) ELSE Throw(state)
       ELSE Ok([state EXCEPT !.revealed.life[p] = AddAll(@, a.cards)])

applyAction(state, a) ==
  IF "a" \in a.absent THEN Throw(state)
  ELSE CASE a.type = "DRAW_TO_HAND" -> DRAW_TO_HAND(state, a)
         [] a.type = "DECK_TO_LIFE_TOP" -> DECK_TO_LIFE_TOP(state, a)
         [] a.type = "DECK_TO_TRASH" -> DECK_TO_TRASH(state, a)
         [] a.type = "LIFE_TO_HAND" -> LIFE_TO_HAND(state, a)
         [] a.type = "LIFE_TO_TRASH" -> LIFE_TO_TRASH(state, a)
         [] a.type = "DON_SET" -> DON_SET(state, a)
         [] a.type = "SHUFFLE" -> SHUFFLE(state, a)
         [] a.type = "MULLIGAN" -> MULLIGAN(state, a)
         [] a.type = "REFRESH" -> REFRESH(state, a)
         [] a.type = "REVEAL_LIFE" -> REVEAL_LIFE(state, a)
         [] OTHER -> Ok(state)

\* broadcast: version++ on the document
Bump(s) == [s EXCEPT !.version = @ + 1]

\* ----------------------------------------------------------- action inputs
Act(type, player) ==
  [type |-> type, player |-> player, target |-> "", value |-> 0, path |-> <<>>,
   cards |-> <<>>, absent |-> {"path", "cards"}]

MoveTypes ==
  {"DRAW_TO_HAND", "DECK_TO_LIFE_TOP", "DECK_TO_TRASH", "LIFE_TO_HAND", "LIFE_TO_TRASH"}
DonTargets == {"deck", "act", "rest"}
DonValues == {0 - 1, 9, 11, NaN}
CardLists == {<<>>} \cup {<<Card(p, 1)>> : p \in Sides}

ProtoActions ==
  {Act(t, p) : t \in MoveTypes \cup {"MULLIGAN", "REFRESH"}, p \in Players}
  \cup {[Act("DON_SET", p) EXCEPT !.target = g, !.value = v] :
          p \in Players, g \in DonTargets, v \in DonValues}
  \cup {[Act("SHUFFLE", "") EXCEPT !.path = q, !.absent = {"cards"}] :
          q \in ArrayPaths \cup OtherPaths}
  \cup {Act("SHUFFLE", "")}
  \cup {[Act("REVEAL_LIFE", p) EXCEPT !.cards = c, !.absent = {"path"}] :
          p \in Players, c \in CardLists}
  \cup {Act("REVEAL_LIFE", p) : p \in Players}
  \cup {Act("UNKNOWN", "A"), Act("undefined", "A")}
  \cup {[Act("undefined", "") EXCEPT !.absent = {"a", "path", "cards"}]}

\* --------------------------------------------------------------- handlers
\* io.on('connection'): join 'game-1' and send the document to this socket
ProtoConnection(s) ==
  /\ ~crashed
  /\ s \notin sockets
  /\ sockets' = sockets \cup {s}
  /\ rooms' = getRoom(rooms)
  /\ emitted' = <<[ev |-> "state:update", to |-> {s}, data |-> Wire(getRoom(rooms)[GAME])]>>
  /\ protoEv' = [op |-> "connection", type |-> "", player |-> ""]
  /\ UNCHANGED <<crashed, multiVars>>

\* socket.on('action'): applyAction, then broadcast to the room
HandleAction(s, a) ==
  /\ ~crashed
  /\ s \in sockets
  /\ \E out \in applyAction(getRoom(rooms)[GAME], a) :
       IF out.threw
       THEN /\ rooms' = Put(rooms, GAME, out.st)
            /\ emitted' = <<>>
            /\ crashed' = TRUE
       ELSE /\ rooms' = Put(rooms, GAME, Bump(out.st))
            /\ emitted' = <<[ev |-> "state:update", to |-> sockets,
                             data |-> Wire(Bump(out.st))]>>
            /\ crashed' = FALSE
  /\ protoEv' = [op |-> "action", type |-> a.type, player |-> a.player]
  /\ UNCHANGED <<sockets, multiVars>>

\* the handler, for documents up to version MaxVersion
ProtoAction(s, a) ==
  /\ getRoom(rooms)[GAME].version < MaxVersion
  /\ HandleAction(s, a)

\* socket.on('disconnect'): nothing to clean up
ProtoDisconnect(s) ==
  /\ ~crashed
  /\ s \in sockets
  /\ sockets' = sockets \ {s}
  /\ emitted' = <<>>
  /\ protoEv' = [op |-> "disconnect", type |-> "", player |-> ""]
  /\ UNCHANGED <<rooms, crashed, multiVars>>

\* ================================================================== specs
InitMulti ==
  /\ MAX_SPECTATORS \in (0..MaxSpecLimit) \cup {Infinity}
  /\ roomState = EmptyMap
  /\ connected = EmptyMap
  /\ sent = <<>>
  /\ acked = "none"
  /\ lastEv = [op |-> "init", id |-> 0, room |-> 0, role |-> "undefined", ack |-> FALSE, reborn |-> FALSE]
  /\ hist = [r \in RoomIds \cup IsoRoomIds |-> NewHist]

InitProto ==
  /\ rooms = EmptyMap
  /\ sockets = {}
  /\ emitted = <<>>
  /\ protoEv = [op |-> "init", type |-> "", player |-> ""]
  /\ crashed = FALSE

Init == InitMulti /\ InitProto

NextMulti ==
  \/ \E s \in SocketIds, room \in RoomIds, name \in Names, role \in RequestedRoles :
       Connection(s, room, name, role)
  \/ \E s \in SocketIds, p \in Payloads, hasAck \in BOOLEAN : OnAction(s, p, hasAck)
  \/ \E s \in SocketIds, d \in PushDocs : OnSnapshotPush(s, d)
  \/ \E s \in SocketIds : OnSnapshotPull(s)
  \/ \E s \in SocketIds : OnDisconnect(s)

SpecMulti == Init /\ [][NextMulti]_vars

\* Two rooms.  A socket's id is drawn afresh by the server: it is not the name
\* of a room somebody asked for before.  A client can name a room like the id
\* of a live socket, which every roster it was sent lists.
FreshId(s) ==
  /\ s \notin DOMAIN roomState
  /\ \A t \in DOMAIN connected : connected[t] # s

KnownRoomName(s, room) ==
  room \in SocketIds => (room \in DOMAIN connected /\ room # s)

\* io.on('connection') with a fresh id and a room name the client can know
ConnectionTo(s, room, name, role) ==
  /\ FreshId(s)
  /\ KnownRoomName(s, room)
  /\ Connection(s, room, name, role)

NextRooms ==
  \/ \E s \in 1..IsoSockets, room \in IsoRoomIds, name \in Names, role \in RequestedRoles :
       ConnectionTo(s, room, name, role)
  \/ \E s \in 1..IsoSockets, p \in Payloads, hasAck \in BOOLEAN : OnAction(s, p, hasAck)
  \/ \E s \in 1..IsoSockets, d \in PushDocs : OnSnapshotPush(s, d)
  \/ \E s \in 1..IsoSockets : OnSnapshotPull(s)
  \/ \E s \in 1..IsoSockets : OnDisconnect(s)

SpecRooms == Init /\ [][NextRooms]_vars

NextProto ==
  \/ \E s \in ProtoSocketIds : ProtoConnection(s)
  \/ \E s \in ProtoSocketIds, a \in ProtoActions : ProtoAction(s, a)
  \/ \E s \in ProtoSocketIds : ProtoDisconnect(s)

\* the relay server's limit plays no part here
InitOnProto == Init /\ MAX_SPECTATORS = Infinity

SpecProto == InitOnProto /\ [][NextProto]_vars

\* ------------------------------------------------- the reducer, one action
\* Cards of side A's deck in the documents the reducer is tried on.
ReducerCards == 3

\* the initial document with a deck of ReducerCards cards for side A
StartDoc ==
  [makeInitialState EXCEPT !.deckImages["A"] = [i \in 1..ReducerCards |-> Card("A", i)],
                           !.deckCounts["A"] = ReducerCards]

\* the document after n actions a whose outcome is determined
RECURSIVE Repeated(_, _, _)
Repeated(state, a, n) ==
  IF n = 0 THEN state
  ELSE Repeated(Bump((CHOOSE out \in applyAction(state, a) : TRUE).st), a, n - 1)

RevealLists ==
  {<<>>, [i \in 1..ReducerCards |-> Card("A", i)]}
  \cup {<<Card("A", i)>> : i \in 1..ReducerCards}

\* Documents the server reaches from StartDoc: t cards of A moved from the
\* deck to the trash, then l to the life zone, then h to the hand, then a
\* REVEAL_LIFE of a list of cards.
PlayedDoc(t, l, h, cards) ==
  LET moved == Repeated(Repeated(Repeated(StartDoc, Act("DECK_TO_TRASH", "A"), t),
                                 Act("DECK_TO_LIFE_TOP", "A"), l),
                        Act("DRAW_TO_HAND", "A"), h)
  IN IF cards = <<>> THEN moved
     ELSE Repeated(moved, [Act("REVEAL_LIFE", "A") EXCEPT !.cards = cards,
                                                         !.absent = {"path"}], 1)

PlayedDocs ==
  {PlayedDoc(t, l, h, cards) :
     t \in 0..ReducerCards, l \in 0..ReducerCards, h \in 0..ReducerCards,
     cards \in RevealLists}

InitReducer ==
  /\ InitMulti /\ MAX_SPECTATORS = Infinity
  /\ rooms \in {Put(EmptyMap, GAME, d) : d \in PlayedDocs}
  /\ sockets = {1}
  /\ emitted = <<>>
  /\ protoEv = [op |-> "init", type |-> "", player |-> ""]
  /\ crashed = FALSE

\* one action handled on the document drawn
ReduceOnce(s, a) ==
  /\ protoEv.op = "init"
  /\ HandleAction(s, a)

NextReducer == \E s \in ProtoSocketIds, a \in ProtoActions : ReduceOnce(s, a)

SpecReducer == InitReducer /\ [][NextReducer]_vars

\* ================================================================= claims
RoomsOf == DOMAIN roomState
SeatHolders(info, seat) == {id \in DOMAIN info.roster : info.roster[id].seat = seat}
\* the messages of the last relay handler with a given event name
SentOf(ev) == {i \in DOMAIN sent : sent[i].ev = ev}

\* C1: in every reachable state each room's roster holds at most 2 PLAYER
\* participants, and each of the seats P1 and P2 is held by at most one
\* connection of that roster.
C1_AtMostTwoPlayers ==
  \A r \in RoomsOf :
    /\ Cardinality(getPlayers(roomState[r])) <= 2
    /\ Cardinality(SeatHolders(roomState[r], P1)) <= 1
    /\ Cardinality(SeatHolders(roomState[r], P2)) <= 1

\* C1 witness: a third connection that did not ask to spectate has joined a
\* room whose two seats are taken, and it is not a PLAYER.
C1_Witness ==
  /\ lastEv.op = "join" /\ lastEv.role # "spec"
  /\ lastEv.room \in RoomsOf
  /\ LET info == roomState[lastEv.room]
     IN /\ Cardinality(getPlayers(info)) = 2
        /\ SeatHolders(info, P1) # {} /\ SeatHolders(info, P2) # {}
        /\ info.roster[lastEv.id].role = "SPEC"

\* C2: after every completed connection event, a room is in the registry if
\* and only if its roster is not empty (no room with an empty roster stays in
\* the registry, also after a join refused for spectator capacity), and every
\* live connection's room is in the registry.
C2_NoEmptyRoomInRegistry ==
  /\ \A r \in RoomsOf : DOMAIN roomState[r].roster # {}
  /\ \A s \in DOMAIN connected : connected[s] \in RoomsOf

\* C3: an 'action' from a connection that is not a PLAYER is answered with
\* {ok:false, reason:'spectator'} (through the callback, when it gave one) and
\* nothing is emitted; a 'snapshot:push' from it emits nothing and answers
\* nothing; both leave the registry (documents, rosters, spectator counters)
\* and the connections as they were.
C3_SpectatorDenied ==
  [][(/\ lastEv'.op \in {"action", "push"}
      /\ lastEv'.id \in DOMAIN connected
      /\ roomState[connected[lastEv'.id]].roster[lastEv'.id].role # "PLAYER")
     => /\ sent' = <<>>
        /\ roomState' = roomState
        /\ connected' = connected
        /\ acked' = IF lastEv'.op = "action" /\ lastEv'.ack THEN "spectator" ELSE "none"]_vars

\* C3 witness: a spectator's 'action' has just been refused through its
\* callback, in a room that holds a document and a player who could have
\* received a broadcast.
C3_Witness ==
  /\ lastEv.op = "action" /\ lastEv.ack
  /\ lastEv.id \in DOMAIN connected
  /\ roomState[lastEv.room].roster[lastEv.id].role = "SPEC"
  /\ getPlayers(roomState[lastEv.room]) # {}
  /\ roomState[lastEv.room].state = "boardA"
  /\ acked = "spectator" /\ sent = <<>>

\* ------------------------------------------------------- authoritative mode
HasDoc == GAME \in DOMAIN rooms
Doc == rooms[GAME]
\* the document the next handler works on
DocBefore == getRoom(rooms)[GAME]
Zones == {"deckImages", "handImages", "lifeImages", "trashImages"}
SourceOf(type) == IF type \in {"LIFE_TO_HAND", "LIFE_TO_TRASH"} THEN "lifeImages"
                  ELSE "deckImages"

\* C4: every action processed for the room raises the document's version by
\* exactly 1 and is followed by one state:update to the room carrying that
\* version (so successive broadcasts carry strictly increasing versions), and
\* no step lowers or resets the version while the room exists.
C4_VersionAdvances ==
  [][/\ protoEv'.op = "action"
        => /\ HasDoc'
           /\ Doc'.version = DocBefore.version + 1
           /\ Len(emitted') = 1
           /\ emitted'[1].ev = "state:update"
           /\ emitted'[1].data.version = DocBefore.version + 1
     /\ HasDoc => (HasDoc' /\ Doc'.version >= Doc.version)]_vars

\* C5: after every reducer transition, for each side and each zone the
\* mirrored count equals the length of the zone's card sequence.
C5_CountsMirrorZones ==
  HasDoc => \A p \in Sides, z \in Zones : Doc[CountOf(z)][p] = Len(Doc[z][p])

\* C5 witness: two actions have been applied, the last one a mulligan that
\* left cards in the side's hand.
C5_Witness ==
  /\ HasDoc /\ Doc.version = 2
  /\ protoEv.op = "action" /\ protoEv.type = "MULLIGAN" /\ protoEv.player = "A"
  /\ Doc.handCounts["A"] = 1 /\ Len(Doc.handImages["A"]) = 1

\* C6 (relay mode): a connection that joins a room holding a document (the
\* value a PLAYER pushed last) is sent exactly one snapshot:apply, carrying
\* that document and addressed to it alone, by its own join handler.
C6_LateJoinerGetsDocument ==
  (lastEv.op = "join" /\ roomState[lastEv.room].state # Null)
  => /\ Cardinality(SentOf("snapshot:apply")) = 1
     /\ \A i \in SentOf("snapshot:apply") :
          sent[i].to = {lastEv.id} /\ sent[i].data = roomState[lastEv.room].state

\* C6 (authoritative mode, checked under SpecProto): the connection handler
\* sends the current document, as serialized, to the new socket alone.
C6_ProtoJoinerGetsDocument ==
  [][protoEv'.op = "connection"
     => /\ Len(emitted') = 1
        /\ emitted'[1].ev = "state:update"
        /\ emitted'[1].to = sockets' \ sockets
        /\ emitted'[1].data = Wire(DocBefore)
        /\ Doc' = DocBefore]_vars

\* ------------------------------------------------------------- relay mode
JoinEvent == lastEv.op \in {"join", "refused"}
\* the room:hello of the last handler, when it sent one
Hello == sent[1].data
SaidHello(role, seat) ==
  /\ SentOf("room:hello") = {1}
  /\ sent[1].to = {lastEv.id}
  /\ Hello.role = role /\ Hello.seat = seat

\* C7 as stated: in every room session the 1st and 2nd joins that do not ask
\* for role=spec get P1 and P2, and the 3rd becomes a spectator with SPEC1.
C7_AsStated ==
  (JoinEvent /\ lastEv.role # "spec")
  => LET k == hist[lastEv.room].eligible
     IN /\ k = 1 => SaidHello("PLAYER", P1)
        /\ k = 2 => SaidHello("PLAYER", P2)
        /\ k = 3 => SaidHello("SPEC", SpecSeat(1))

\* C7 amended: in a room session in which so far no connection has left and
\* no spectator has been seated, the 1st and 2nd joins that do not ask for
\* role=spec get P1 and P2 in join order, and the 3rd becomes a spectator with
\* seat SPEC1 when the spectator limit is at least 1 and is refused with
\* room:spectators_full when the limit is 0.
C7_SeatsInJoinOrder ==
  [][(lastEv'.op \in {"join", "refused"} /\ lastEv'.role # "spec")
     => LET r == lastEv'.room
            before == IF r \in RoomsOf THEN roomState[r] ELSE createRoomInfo
            k == hist'[r].eligible
            undisturbed == /\ Cardinality(DOMAIN before.roster) = k - 1
                           /\ before.nextSpecNo = 1
        IN undisturbed
           => /\ k = 1 => SaidHello("PLAYER", P1)'
              /\ k = 2 => SaidHello("PLAYER", P2)'
              /\ k = 3 => IF MAX_SPECTATORS >= 1
                          THEN SaidHello("SPEC", SpecSeat(1))'
                          ELSE lastEv'.op = "refused" /\ SentOf("room:hello")' = {}]_vars

\* C7 witness: three connections joined one after the other without asking to
\* spectate; they hold P1, P2 and SPEC1.
C7_Witness ==
  /\ lastEv.op = "join" /\ lastEv.role # "spec"
  /\ hist[lastEv.room].eligible = 3
  /\ Cardinality(DOMAIN roomState[lastEv.room].roster) = 3
  /\ SaidHello("SPEC", SpecSeat(1))
  /\ SeatHolders(roomState[lastEv.room], P1) # {}
  /\ SeatHolders(roomState[lastEv.room], P2) # {}

LiveIn(r) == {s \in DOMAIN connected : connected[s] = r}

\* C8: a join and a disconnect each emit one room:roster, and every
\* room:roster lists exactly the live connections of that room: as many
\* entries as live connections, with the joiner after a join and without the
\* leaver after a disconnect.
C8_RosterListsLiveMembers ==
  /\ lastEv.op \in {"join", "disconnect"} => Cardinality(SentOf("room:roster")) = 1
  /\ \A i \in SentOf("room:roster") :
       LET ids == {e.id : e \in sent[i].data}
       IN /\ ids = LiveIn(lastEv.room)
          /\ Cardinality(sent[i].data) = Cardinality(LiveIn(lastEv.room))
          /\ lastEv.op = "join" => lastEv.id \in ids
          /\ lastEv.op = "disconnect" => lastEv.id \notin ids

\* C8 witness: a connection has left a room in which two others stay, and the
\* roster sent lists those two.
C8_Witness ==
  /\ lastEv.op = "disconnect"
  /\ SentOf("room:roster") = {1}
  /\ Cardinality(sent[1].data) = 2
  /\ Cardinality(LiveIn(lastEv.room)) = 2

\* C9: the spectators of a room never outnumber MAX_SPECTATORS; a refused
\* join is sent room:spectators_full and nothing else, gets no handlers and
\* no roster entry, leaves every roster and document as it was, and does not
\* use up a spectator number.
C9_SpectatorLimit ==
  [][/\ \A r \in RoomsOf' : countSpectators(roomState[r])' <= MAX_SPECTATORS
     /\ lastEv'.op = "refused"
        => LET r == lastEv'.room
               before == IF r \in RoomsOf THEN roomState[r] ELSE createRoomInfo
           IN /\ countSpectators(before) >= MAX_SPECTATORS
              /\ sent' = <<[ev |-> "room:spectators_full", to |-> {lastEv'.id},
                            data |-> r]>>
              /\ connected' = connected
              /\ lastEv'.id \notin DOMAIN connected'
              /\ roomState'[r] = before
              /\ \A q \in RoomsOf' : lastEv'.id \notin DOMAIN roomState'[q].roster]_vars

\* C9 witness: with a limit of 1 and one spectator seated, a second spectator
\* has just been refused; the next spectator number is still 2.
C9_Witness ==
  /\ MAX_SPECTATORS = 1
  /\ lastEv.op = "refused"
  /\ countSpectators(roomState[lastEv.room]) = 1
  /\ roomState[lastEv.room].nextSpecNo = 2
  /\ SentOf("room:spectators_full") = {1}

\* C10: a move-top action of side A or B whose source zone is empty leaves
\* every zone, count, resource pool and reveal set as it was (the whole
\* document but its version), and the version advances by exactly 1.
C10_EmptyMoveOnlyBumps ==
  [][(/\ protoEv'.op = "action"
      /\ protoEv'.type \in MoveTypes
      /\ protoEv'.player \in Sides
      /\ Len(DocBefore[SourceOf(protoEv'.type)][protoEv'.player]) = 0)
     => /\ ~crashed'
        /\ Doc' = [DocBefore EXCEPT !.version = @ + 1]]_vars

\* C10 witness: A's only card went to the trash and a draw from A's empty
\* deck followed: the hand is still empty and the version is 2.
C10_Witness ==
  /\ HasDoc /\ Doc.version = 2
  /\ protoEv.op = "action" /\ protoEv.type = "DRAW_TO_HAND" /\ protoEv.player = "A"
  /\ Doc.deckImages["A"] = <<>> /\ Doc.handImages["A"] = <<>>
  /\ Doc.deckCounts["A"] = 0 /\ Doc.handCounts["A"] = 0

\* C11: a disconnect that leaves a room without live connections removes the
\* room from the registry, and a join to a room without live connections gets
\* a fresh room: no snapshot:apply is sent to it, the room holds no document,
\* the roster lists the joiner alone, and the seat is P1 for a player and
\* SPEC1 for a spectator, with the next spectator number counted from there.
C11_FreshRoomAfterTeardown ==
  [][/\ (lastEv'.op = "disconnect"
         /\ {s \in DOMAIN connected' : connected'[s] = lastEv'.room} = {})
        => lastEv'.room \notin RoomsOf'
     /\ (lastEv'.op = "join" /\ LiveIn(lastEv'.room) = {})
        => LET info == roomState'[lastEv'.room]
               me == info.roster[lastEv'.id]
           IN /\ SentOf("snapshot:apply")' = {}
              /\ info.state = Null
              /\ DOMAIN info.roster = {lastEv'.id}
              /\ \A i \in SentOf("room:roster")' :
                    {e.id : e \in sent'[i].data} = {lastEv'.id}
              /\ me.role = "PLAYER" => me.seat = P1 /\ info.nextSpecNo = 1
              /\ me.role = "SPEC" => me.seat = SpecSeat(1) /\ info.nextSpecNo = 2]_vars

\* C11 witness: a room that held a document and had handed out SPEC1 was torn
\* down by its last disconnect; the join that followed sits alone on P1 in a
\* room without a document and was sent no snapshot.
C11_Witness ==
  /\ lastEv.op = "join" /\ lastEv.reborn
  /\ roomState[lastEv.room].state = Null
  /\ DOMAIN roomState[lastEv.room].roster = {lastEv.id}
  /\ roomState[lastEv.room].roster[lastEv.id].seat = P1
  /\ roomState[lastEv.room].nextSpecNo = 1
  /\ SentOf("snapshot:apply") = {}

\* the tables of the document that hold one entry per side
SideTables ==
  {"deckImages", "handImages", "lifeImages", "trashImages", "deckCounts", "handCounts",
   "lifeCounts", "trashCounts", "donDeck", "donAct", "donRest", "chara", "stage"}
IsNumber(x) == x \in Int /\ x # NaN
\* every table has the sides A and B and no other, and every pool is a number
WellFormed(doc) ==
  /\ \A t \in SideTables : DOMAIN doc[t] = Sides
  /\ \A t \in {"donDeck", "donAct", "donRest"} :
       \A p \in DOMAIN doc[t] : IsNumber(doc[t][p])

\* C12: no action and no join ends in an error: for every payload (kind
\* missing or unknown, side missing or unknown, no shuffle path, no card list)
\* the handler runs to completion and the document stays well-formed.
C12_NoHandlerEndsInError ==
  /\ ~crashed
  /\ HasDoc => WellFormed(Doc)

Spectators(info) == {id \in DOMAIN info.roster : info.roster[id].role = "SPEC"}

\* C14: within a room session the spectator labels are SPEC1, SPEC2, ... in
\* join order: a spectator join gets a number greater than every number handed
\* out earlier in the session (one more than the highest), also when earlier
\* holders have left; no two spectators of a roster share a label, and the
\* room's counter never goes back while the room exists.
C14_SpectatorLabelsIncrease ==
  [][/\ \A r \in RoomsOf \cap RoomsOf' : roomState'[r].nextSpecNo >= roomState[r].nextSpecNo
     /\ \A r \in RoomsOf' :
          \A a, b \in Spectators(roomState'[r]) :
             a # b => roomState'[r].roster[a].seat # roomState'[r].roster[b].seat
     /\ (/\ lastEv'.op = "join"
         /\ roomState'[lastEv'.room].roster[lastEv'.id].role = "SPEC")
        => LET r == lastEv'.room
               seat == roomState'[r].roster[lastEv'.id].seat
               earlier == IF r \in RoomsOf THEN hist[r].issued ELSE 0
           IN /\ seat[1] = "SPEC"
              /\ seat[2] = earlier + 1
              /\ \A id \in Spectators(roomState'[r]) \ {lastEv'.id} :
                    roomState'[r].roster[id].seat[2] < seat[2]
              /\ sent'[1].ev = "room:hello" /\ sent'[1].to = {lastEv'.id}
              /\ sent'[1].data.role = "SPEC" /\ sent'[1].data.seat = seat]_vars

\* C14 witness: SPEC1 was handed out and its holder left; the spectator that
\* joined next holds SPEC2 while no other spectator is in the room.
C14_Witness ==
  /\ lastEv.op = "join"
  /\ Spectators(roomState[lastEv.room]) = {lastEv.id}
  /\ roomState[lastEv.room].roster[lastEv.id].seat = SpecSeat(2)
  /\ hist[lastEv.room].issued = 2

\* C15: a mulligan of a side with h hand cards and d deck cards leaves the
\* h+d cards in hand and deck, the hand holding min(5, h+d) of them and the
\* deck the rest.
C15_MulliganDrawsFive ==
  [][(/\ protoEv'.op = "action" /\ protoEv'.type = "MULLIGAN"
      /\ protoEv'.player \in Sides)
     => LET p == protoEv'.player
            n == Len(DocBefore.handImages[p]) + Len(DocBefore.deckImages[p])
        IN /\ Len(Doc'.handImages[p]) = Min2(5, n)
           /\ Len(Doc'.deckImages[p]) = n - Min2(5, n)
           /\ Range(Doc'.handImages[p]) \cup Range(Doc'.deckImages[p])
                = Range(DocBefore.handImages[p]) \cup Range(DocBefore.deckImages[p])]_vars

\* C16: a refresh of a side sets its rested pool to 0, moves
\* k = min(2, reserve, 10 - active) units from reserve to active (reserve
\* falls by k and active rises by the same k), and moves the top card of the
\* deck to the hand (no card when the deck is empty).
C16_RefreshTransfers ==
  [][(/\ protoEv'.op = "action" /\ protoEv'.type = "REFRESH"
      /\ protoEv'.player \in Sides)
     => LET p == protoEv'.player
            reserve == DocBefore.donDeck[p]
            active == DocBefore.donAct[p]
            k == Min2(2, Min2(reserve, 10 - active))
            deck == DocBefore.deckImages[p]
        IN /\ Doc'.donRest[p] = 0
           /\ Doc'.donDeck[p] = reserve - k
           /\ Doc'.donAct[p] = active + k
           /\ IF deck = <<>>
              THEN /\ Doc'.deckImages[p] = <<>>
                   /\ Doc'.handImages[p] = DocBefore.handImages[p]
              ELSE /\ Doc'.deckImages[p] = Tail(deck)
                   /\ Doc'.handImages[p] = <<Head(deck)>> \o DocBefore.handImages[p]]_vars

\* C17 as stated: after any action, every member of a side's life reveal set
\* is a card of that side's life zone.
C17_AsStated ==
  (HasDoc /\ protoEv.op = "action")
  => \A p \in Sides : Range(Doc.revealed.life[p]) \subseteq Range(Doc.lifeImages[p])

\* C17 amended: when LIFE_TO_HAND or LIFE_TO_TRASH moves a card out of a
\* side's life zone, the moved card is not a member of that side's life reveal
\* set afterwards, and the set keeps its other members (and the other side's
\* set stays as it was).
C17_LeavingLifePurges ==
  [][(/\ protoEv'.op = "action"
      /\ protoEv'.type \in {"LIFE_TO_HAND", "LIFE_TO_TRASH"}
      /\ protoEv'.player \in Sides
      /\ DocBefore.lifeImages[protoEv'.player] # <<>>)
     => LET p == protoEv'.player
            top == Head(DocBefore.lifeImages[p])
        IN /\ top \notin Range(Doc'.lifeImages[p])
           /\ top \notin Range(Doc'.revealed.life[p])
           /\ Range(Doc'.revealed.life[p]) = Range(DocBefore.revealed.life[p]) \ {top}
           /\ \A q \in Sides \ {p} : Doc'.revealed.life[q] = DocBefore.revealed.life[q]]_vars

\* C17 witness: every card of A had been revealed; LIFE_TO_HAND then moved
\* the top of A's life zone to the hand, and the reveal set holds all cards
\* but that one.
C17_Witness ==
  /\ HasDoc /\ protoEv.op = "action" /\ protoEv.type = "LIFE_TO_HAND"
  /\ protoEv.player = "A"
  /\ Doc.handImages["A"] # <<>>
  /\ Head(Doc.handImages["A"]) \notin Range(Doc.revealed.life["A"])
  /\ Len(Doc.revealed.life["A"]) = ReducerCards - 1

\* how often a card occurs in the four zones of a side, and the cards that
\* occur in a document at all
Copies(doc, p, c) ==
  Cardinality({zi \in UNION {{<<z, i>> : i \in 1..Len(doc[z][p])} : z \in Zones} :
                 doc[zi[1]][p][zi[2]] = c})
AllCards(doc) == UNION {Range(doc[z][p]) : z \in Zones, p \in Sides}

\* C18: in every document the server reaches, also the one a failed action
\* leaves, each side's deck, hand, life and trash together hold the cards of
\* its initial deck, each once: no action duplicates a card, drops one or
\* moves one to the other side.
C18_CardsConserved ==
  HasDoc => \A p \in Sides :
              \A c \in AllCards(Doc) \cup AllCards(StartDoc) :
                 Copies(Doc, p, c) = Copies(StartDoc, p, c)

\* C18 witness: a mulligan of A on the full deck has shuffled it and drawn
\* from it: the first card of the initial deck is now the only one left in
\* the deck, the others are in the hand.
C18_Witness ==
  /\ HasDoc /\ protoEv.op = "action" /\ protoEv.type = "MULLIGAN"
  /\ protoEv.player = "A"
  /\ Doc.deckImages["A"] = <<Card("A", 1)>>
  /\ Len(Doc.handImages["A"]) = ReducerCards - 1
  /\ Doc.lifeImages["A"] = <<>> /\ Doc.trashImages["A"] = <<>>

\* C19: in every document the server reaches, the reserve, active and rested
\* pools of the sides A and B are integers from 0 to 10, whatever values the
\* DON_SET actions gave and however often REFRESH ran.
C19_PoolsWithinRange ==
  HasDoc => \A p \in Sides :
              \A t \in {"donDeck", "donAct", "donRest"} :
                 /\ p \in DOMAIN Doc[t]
                 /\ Doc[t][p] \in 0..10

\* C19 witness: A's active pool was set close to or past the ceiling and a
\* refresh followed: 2 units left the reserve and the active pool stands at
\* 10.
C19_Witness ==
  /\ HasDoc /\ Doc.version = 2
  /\ protoEv.op = "action" /\ protoEv.type = "REFRESH" /\ protoEv.player = "A"
  /\ Doc.donAct["A"] = 10 /\ Doc.donDeck["A"] = 8 /\ Doc.donRest["A"] = 0

\* C20: an event of a connection in room X (join, refused join, action,
\* snapshot:push, snapshot:pull, disconnect) leaves every other room of the
\* registry as it was (roster, document, spectator counter), and every message
\* it causes is addressed to the connection itself or to members of room X.
C20_RoomIsolation ==
  [][LET X == lastEv'.room
         members == {s \in DOMAIN connected : connected[s] = X}
                    \cup {s \in DOMAIN connected' : connected'[s] = X}
     IN /\ \A r \in (RoomsOf \cup RoomsOf') \ {X} :
             r \in RoomsOf /\ r \in RoomsOf' /\ roomState'[r] = roomState[r]
        /\ \A s \in (DOMAIN connected \cup DOMAIN connected') \ {lastEv'.id} :
             /\ s \in DOMAIN connected /\ s \in DOMAIN connected'
             /\ connected'[s] = connected[s]
        /\ \A i \in DOMAIN sent' : sent'[i].to \subseteq members \cup {lastEv'.id}]_vars

====
